---- MODULE Spec2Model ----
(***************************************************************************)
(* SimpleInvestmentAnalyzer (main.py): the analyzer object, the files it   *)
(* keeps under test_data_path, and the metrics it computes from a ticker's *)
(* daily bars.                                                             *)
(*                                                                         *)
(* Numbers.  The code computes in float64; the model computes in exact     *)
(* arithmetic over the values float64 can take here:                       *)
(*   [k |-> "nan"]            NaN                                          *)
(*   [k |-> "inf", n |-> s]   +infinity (s = 1) or -infinity (s = -1)      *)
(*   [k |-> "num", n, d]      the rational n/d, d > 0, in lowest terms     *)
(*   [k |-> "sqrt", n, d]     sign(n) * sqrt(|n|/d), d > 0, lowest terms   *)
(* Rounding error of float64 is not modelled.                              *)
(***************************************************************************)
EXTENDS Integers, Sequences, FiniteSets, TLC

VARIABLES data, tickers, test_mode, test_dir, fs, pc, idx, log, ret

vars == <<data, tickers, test_mode, test_dir, fs, pc, idx, log, ret>>

----------------------------------------------------------------------------
(* Bounds of the model *)

MaxBars == 3      \* longest bar sequence the data source returns
MaxPrice == 2     \* highest first close of a bar sequence
MaxLong == 210    \* longest bar sequence of the moving-average runs
MaxBase == 2      \* highest lowest close of such a sequence
MaxSlope == 2     \* steepest daily rise or fall of such a sequence
MaxNum == 6       \* Sharpe ratios given to the recommendation are +-p/q,
MaxDen == 10      \*   p in 0..MaxNum and q in 1..MaxDen

(* Program constants *)

WINDOW50 == 50
WINDOW200 == 200
TRADING_DAYS == 252
VOLUME == 1000000

Tickers == {"T1", "T2"}

Range(s) == {s[i] : i \in DOMAIN s}

\* the lists fetch_data is called with: lists of distinct symbols
TickerLists ==
  {<<>>} \cup {<<t>> : t \in Tickers}
         \cup {<<t, u>> : <<t, u>> \in {p \in Tickers \X Tickers : p[1] # p[2]}}

\* the close-price series a data source can return: none, one bar, or bars
\* that stay flat, rise by one or fall by one a day; prices are positive
CloseSeries ==
  {c \in {[i \in 1..n |-> p + s * (i - 1)] :
            n \in 0..MaxBars, p \in 1..MaxPrice, s \in {-1, 0, 1}} :
     \A i \in DOMAIN c : c[i] >= 1}

\* the closes _generate_test_data builds, the same on every call (the seed is
\* fixed); the 365-bar random walk is stood for by a short zigzag
SyntheticCloses == [i \in 1..MaxBars |-> IF i % 2 = 1 THEN 2 ELSE 3]

\* the lengths of the long sequences: around one bar, around each window, and
\* up to MaxLong
LongLengths ==
  {n \in 1..MaxLong : n <= 2 \/ (n >= WINDOW50 - 1 /\ n <= WINDOW50 + 1) \/ n >= WINDOW200 - 1}

\* n closes on a line: rising by b a day from a (b >= 0), or falling by -b a
\* day down to a (b < 0)
LongCloses(n, a, b) ==
  [i \in 1..n |-> IF b >= 0 THEN a + b * (i - 1) ELSE a + (-b) * (n - i)]

----------------------------------------------------------------------------
(* float64 values *)

NaN == [k |-> "nan", n |-> 0, d |-> 1]
Inf(s) == [k |-> "inf", n |-> s, d |-> 1]

Abs(x) == IF x < 0 THEN -x ELSE x
Sign(x) == IF x < 0 THEN -1 ELSE IF x > 0 THEN 1 ELSE 0

RECURSIVE GCD(_, _)
GCD(a, b) == IF b = 0 THEN a ELSE GCD(b, a % b)

Norm(kind, n, d) ==
  LET g == GCD(Abs(n), Abs(d))
      s == IF d < 0 THEN -1 ELSE 1
  IN [k |-> kind, n |-> (s * n) \div g, d |-> (s * d) \div g]

Rat(n, d) == Norm("num", n, d)

IsNum(x) == x.k = "num"

\* x + y, x - y and x * y on num values, NaN propagating
FAdd(x, y) == IF IsNum(x) /\ IsNum(y) THEN Rat(x.n * y.d + y.n * x.d, x.d * y.d) ELSE NaN
FSub(x, y) == IF IsNum(x) /\ IsNum(y) THEN Rat(x.n * y.d - y.n * x.d, x.d * y.d) ELSE NaN
FMul(x, y) == IF IsNum(x) /\ IsNum(y) THEN Rat(x.n * y.n, x.d * y.d) ELSE NaN

\* x > y for num values; any comparison with NaN is False
FGt(x, y) == IsNum(x) /\ IsNum(y) /\ x.n * y.d > y.n * x.d

----------------------------------------------------------------------------
(* pandas Series operations used by calculate_metrics *)

\* Series.pct_change(): NaN at the first row, (c[i] - c[i-1]) / c[i-1] after it
PctChange(col) ==
  [i \in 1..Len(col) |-> IF i = 1 THEN NaN ELSE Rat(col[i] - col[i - 1], col[i - 1])]

\* the non-NaN values of a column, in order (skipna)
RECURSIVE Valid(_)
Valid(col) ==
  IF col = <<>> THEN <<>>
  ELSE IF Head(col).k = "nan" THEN Valid(Tail(col))
  ELSE <<Head(col)>> \o Valid(Tail(col))

RECURSIVE FSum(_)
FSum(col) == IF col = <<>> THEN Rat(0, 1) ELSE FAdd(Head(col), FSum(Tail(col)))

\* Series.mean(): the mean of the non-NaN values, NaN when there is none
SeriesMean(col) ==
  LET v == Valid(col)
  IN IF Len(v) = 0 THEN NaN
     ELSE LET s == FSum(v) IN Rat(s.n, s.d * Len(v))

\* Series.std(): sample standard deviation (ddof = 1) of the non-NaN values,
\* NaN when fewer than two
SeriesStd(col) ==
  LET v == Valid(col)
      m == SeriesMean(col)
      sq == [i \in 1..Len(v) |-> FMul(FSub(v[i], m), FSub(v[i], m))]
  IN IF Len(v) < 2 THEN NaN
     ELSE LET s == FSum(sq) IN Norm("sqrt", s.n, s.d * (Len(v) - 1))

\* the sum of col[lo..hi], by halves
RECURSIVE SumInts(_, _, _)
SumInts(col, lo, hi) ==
  IF lo > hi THEN 0
  ELSE IF lo = hi THEN col[lo]
  ELSE LET mid == (lo + hi) \div 2
       IN SumInts(col, lo, mid) + SumInts(col, mid + 1, hi)

\* rolling(window=w, min_periods=1): a mean over the rows there are
RollingMeanShortWindow(col, w) ==
  [i \in 1..Len(col) |->
     IF i < w THEN Rat(SumInts(col, 1, i), i) ELSE Rat(SumInts(col, i - w + 1, i), w)]

\* Series.rolling(window=w).mean(): NaN until w rows exist, then the mean of
\* the trailing w rows
RollingMean(col, w) ==
  [i \in 1..Len(col) |-> IF i < w THEN NaN ELSE Rat(SumInts(col, i - w + 1, i), w)]

\* Series.iloc[-1]
Last(col) == col[Len(col)]

----------------------------------------------------------------------------
(* calculate_metrics, as a function of the frame *)

BaseCols == {"Open", "High", "Low", "Close", "Volume"}
DerivedCols == {"Daily_Return", "MA50", "MA200"}

\* a frame of daily bars with the given closes
Frame(closes) ==
  [c \in BaseCols |->
     IF c = "Volume" THEN [i \in 1..Len(closes) |-> VOLUME] ELSE closes]

\* DataFrame.empty
Empty(df) == Len(df["Close"]) = 0

\* df[name] = col
SetCol(df, name, col) ==
  [c \in DOMAIN df \cup {name} |-> IF c = name THEN col ELSE df[c]]

\* avg_daily_return * 252
Annualize(avg) == FMul(avg, Rat(TRADING_DAYS, 1))

\* std * np.sqrt(252)
Volatility(std) ==
  IF std.k = "nan" THEN NaN ELSE Norm("sqrt", std.n * TRADING_DAYS, std.d)

\* annualized_return / volatility in float64: x/0 is +-inf, 0/0 is NaN
SharpeRatio(ann, vol) ==
  IF ann.k = "nan" \/ vol.k = "nan" THEN NaN
  ELSE IF vol.n = 0 THEN (IF ann.n = 0 THEN NaN ELSE Inf(Sign(ann.n)))
  ELSE Norm("sqrt", Sign(ann.n) * ann.n * ann.n * vol.d, ann.d * ann.d * vol.n)

\* the comparison with its operands swapped
TrendSwapped(ma50, ma200) == IF FGt(ma200, ma50) THEN "Bullish" ELSE "Bearish"

\* if metrics['ma50'] > metrics['ma200']
Trend(ma50, ma200) == IF FGt(ma50, ma200) THEN "Bullish" ELSE "Bearish"

\* the rows of a frame that hold no NaN
RECURSIVE CompleteRows(_, _)
CompleteRows(df, i) ==
  IF i = 0 THEN <<>>
  ELSE LET before == CompleteRows(df, i - 1)
       IN IF \E c \in DOMAIN df \cap {"Daily_Return", "MA50", "MA200"} : df[c][i].k = "nan"
          THEN before ELSE Append(before, i)

\* the derived columns followed by df.dropna(inplace=True)
WithDerivedDropNa(df) ==
  LET d == SetCol(SetCol(SetCol(df, "Daily_Return", PctChange(df["Close"])),
                         "MA50", RollingMean(df["Close"], WINDOW50)),
                  "MA200", RollingMean(df["Close"], WINDOW200))
      rows == CompleteRows(d, Len(d["Close"]))
  IN [c \in DOMAIN d |-> [i \in 1..Len(rows) |-> d[c][rows[i]]]]

\* the frame after lines 87, 96, 97
WithDerived(df) ==
  SetCol(SetCol(SetCol(df, "Daily_Return", PctChange(df["Close"])),
                "MA50", RollingMean(df["Close"], WINDOW50)),
         "MA200", RollingMean(df["Close"], WINDOW200))

\* the frame after lines 96, 97 alone
WithAverages(df) ==
  SetCol(SetCol(df, "MA50", RollingMean(df["Close"], WINDOW50)),
         "MA200", RollingMean(df["Close"], WINDOW200))

\* lines 86-93: the metrics computed from the daily returns
ReturnMetrics(df) ==
  LET returns == PctChange(df["Close"])
      avg == SeriesMean(returns)
      ann == Annualize(avg)
      vol == Volatility(SeriesStd(returns))
  IN [avg_daily_return |-> avg,
      annualized_return |-> ann,
      volatility |-> vol,
      sharpe_ratio |-> SharpeRatio(ann, vol)]

\* lines 95-109: the metrics computed from the moving averages
TrendMetrics(df) ==
  LET ma50 == Last(RollingMean(df["Close"], WINDOW50))
      ma200 == Last(RollingMean(df["Close"], WINDOW200))
  IN [current_price |-> Last(df["Close"]),
      ma50 |-> ma50,
      ma200 |-> ma200,
      trend |-> Trend(ma50, ma200)]

\* the metrics dict of a non-empty frame
Metrics(df) == ReturnMetrics(df) @@ TrendMetrics(df)

----------------------------------------------------------------------------
(* generate_report: the recommendation *)

\* sharpe > p/q and sharpe <= p/q for a literal p/q > 0; False on NaN
SharpeGe(x, p, q) ==
  \/ x.k = "inf" /\ x.n > 0
  \/ x.k = "sqrt" /\ x.n > 0 /\ x.n * q * q >= p * p * x.d

SharpeGt(x, p, q) ==
  \/ x.k = "inf" /\ x.n > 0
  \/ x.k = "sqrt" /\ x.n > 0 /\ x.n * q * q > p * p * x.d
SharpeLe(x, p, q) ==
  \/ x.k = "inf" /\ x.n < 0
  \/ x.k = "sqrt" /\ ~(x.n > 0 /\ x.n * q * q > p * p * x.d)

BUY == "Consider Buying: Positive trend with good risk-adjusted returns"
WATCH == "Hold/Watch: Positive trend but lower risk-adjusted returns"
CAUTION == "Hold with Caution: Negative trend but still some positive risk-adjusted returns"
SELL == "Consider Selling/Avoiding: Negative trend with poor risk-adjusted returns"

Recommendation(trend, sharpe) ==
  IF trend = "Bullish" /\ SharpeGt(sharpe, 1, 1) THEN BUY
  ELSE IF trend = "Bullish" /\ SharpeLe(sharpe, 1, 1) THEN WATCH
  ELSE IF trend = "Bearish" /\ SharpeGt(sharpe, 1, 2) THEN CAUTION
  ELSE SELL

Report(ticker, m) ==
  [ticker |-> ticker,
   current_price |-> m.current_price,
   ma50 |-> m.ma50,
   ma200 |-> m.ma200,
   trend |-> m.trend,
   annualized_return |-> m.annualized_return,
   volatility |-> m.volatility,
   sharpe_ratio |-> m.sharpe_ratio,
   recommendation |-> Recommendation(m.trend, m.sharpe_ratio)]

----------------------------------------------------------------------------
(* files under test_data_path *)

CsvPath(t) == <<t, "_test_data.csv">>
PlotPath(t) == <<t, "_plot.png">>
ReportPath(t) == <<t, "_report.json">>

Exists(files, path) == path \in DOMAIN files

WriteFile(files, path, content) ==
  [p \in DOMAIN files \cup {path} |-> IF p = path THEN content ELSE files[p]]

\* DataFrame.to_csv: a header line and one line per row
ToCsv(df) ==
  [header |-> DOMAIN df,
   rows |-> [i \in 1..Len(df["Close"]) |-> [c \in DOMAIN df |-> df[c][i]]]]

\* pd.read_csv: the columns of the header, each read down the rows
ReadCsv(csv) ==
  [c \in csv.header |-> [i \in 1..Len(csv.rows) |-> csv.rows[i][c]]]

NoFiles == [p \in {} |-> 0]

----------------------------------------------------------------------------
(* the analyzer *)

NoEntries == [t \in {} |-> 0]
NoneData == [is_none |-> TRUE, entries |-> NoEntries]
Dict(entries) == [is_none |-> FALSE, entries |-> entries]

SetEntry(entries, t, df) ==
  [u \in DOMAIN entries \cup {t} |-> IF u = t THEN df ELSE entries[u]]

Returned(op, arg, kind, value, shown) ==
  [op |-> op, arg |-> arg, kind |-> kind, value |-> value, shown |-> shown]

\* __init__, with nothing under test_data_path yet
Init ==
  /\ data = NoneData
  /\ tickers = <<>>
  /\ test_mode = FALSE
  /\ test_dir = FALSE
  /\ fs = NoFiles
  /\ pc = "idle"
  /\ idx = 0
  /\ log = <<>>
  /\ ret = Returned("__init__", "", "none", "", FALSE)

enable_test_mode ==
  /\ pc = "idle"
  /\ test_mode' = TRUE
  /\ test_dir' = TRUE
  /\ ret' = Returned("enable_test_mode", "", "none", "", FALSE)
  /\ UNCHANGED <<data, tickers, fs, pc, idx, log>>

\* fetch_data without line 29: the entries of earlier calls are kept
fetch_data_keeping(list) ==
  /\ pc = "idle"
  /\ tickers' = list
  /\ data' = Dict(data.entries)
  /\ pc' = "fetch_data"
  /\ idx' = 1
  /\ log' = <<>>
  /\ ret' = Returned("fetch_data", list, "running", "", FALSE)
  /\ UNCHANGED <<test_mode, test_dir, fs>>

\* fetch_data, lines 28-29
fetch_data(list) ==
  /\ pc = "idle"
  /\ tickers' = list
  /\ data' = Dict(NoEntries)
  /\ pc' = "fetch_data"
  /\ idx' = 1
  /\ log' = <<>>
  /\ ret' = Returned("fetch_data", list, "running", "", FALSE)
  /\ UNCHANGED <<test_mode, test_dir, fs>>

\* _generate_test_data without line 72: the frame is not saved
generate_test_data_unsaved(ticker) ==
  /\ fs' = fs
  /\ data' = Dict(SetEntry(data.entries, ticker, Frame(SyntheticCloses)))

\* _generate_test_data(ticker)
generate_test_data(ticker) ==
  LET df == Frame(SyntheticCloses)
  IN /\ fs' = WriteFile(fs, CsvPath(ticker), ToCsv(df))
     /\ data' = Dict(SetEntry(data.entries, ticker, df))

\* one pass of the loop of fetch_data in test mode, lines 33-41 and 46
fetch_test(ticker) ==
  /\ test_mode
  /\ IF Exists(fs, CsvPath(ticker))
     THEN /\ data' = Dict(SetEntry(data.entries, ticker, ReadCsv(fs[CsvPath(ticker)])))
          /\ fs' = fs
          /\ log' = log \o <<<<"Loaded test data for", ticker>>,
                             <<"Successfully fetched data for", ticker>>>>
     ELSE /\ generate_test_data(ticker)
          /\ log' = log \o <<<<"Generated test data for", ticker>>,
                             <<"Successfully fetched data for", ticker>>>>

\* one pass of the loop with the data source answering, lines 44-46
fetch_real(ticker) ==
  /\ ~test_mode
  /\ \E closes \in CloseSeries :
       data' = Dict(SetEntry(data.entries, ticker, Frame(closes)))
  /\ fs' = fs
  /\ log' = Append(log, <<"Successfully fetched data for", ticker>>)

\* an except clause that stores an empty frame for the ticker
fetch_error_storing(ticker) ==
  /\ ~test_mode
  /\ data' = Dict(SetEntry(data.entries, ticker, Frame(<<>>)))
  /\ fs' = fs
  /\ log' = Append(log, <<"Error fetching data for", ticker>>)

\* one pass of the loop with the data source raising, lines 47-48
fetch_error(ticker) ==
  /\ ~test_mode
  /\ data' = data
  /\ fs' = fs
  /\ log' = Append(log, <<"Error fetching data for", ticker>>)

fetch_step ==
  /\ pc = "fetch_data"
  /\ idx <= Len(tickers)
  /\ \/ fetch_test(tickers[idx])
     \/ fetch_real(tickers[idx])
     \/ fetch_error(tickers[idx])
  /\ idx' = idx + 1
  /\ UNCHANGED <<tickers, test_mode, test_dir, pc, ret>>

\* return self.data
fetch_return ==
  /\ pc = "fetch_data"
  /\ idx > Len(tickers)
  /\ pc' = "idle"
  /\ idx' = 0
  /\ ret' = Returned("fetch_data", tickers, "data", "self.data", FALSE)
  /\ UNCHANGED <<data, tickers, test_mode, test_dir, fs, log>>

\* a test that also takes a single bar for no data
NoDataUnderTwoBars(ticker) ==
  ticker \notin DOMAIN data.entries \/ Len(data.entries[ticker]["Close"]) < 2

\* ticker not in self.data or self.data[ticker].empty
NoData(ticker) == ticker \notin DOMAIN data.entries \/ Empty(data.entries[ticker])

calculate_metrics(ticker) ==
  /\ pc = "idle"
  /\ IF data.is_none
     THEN /\ ret' = Returned("calculate_metrics", ticker, "raise", "TypeError", FALSE)
          /\ data' = data
     ELSE IF NoData(ticker)
     THEN /\ ret' = Returned("calculate_metrics", ticker, "none", "", FALSE)
          /\ data' = data
     ELSE /\ ret' = Returned("calculate_metrics", ticker, "metrics",
                             Metrics(data.entries[ticker]), FALSE)
          /\ data' = Dict(SetEntry(data.entries, ticker, WithDerived(data.entries[ticker])))
  /\ UNCHANGED <<tickers, test_mode, test_dir, fs, pc, idx, log>>

\* visualize_stock(ticker) on a non-empty frame: the files after it
visualize_stock(files, ticker) ==
  IF test_mode THEN WriteFile(files, PlotPath(ticker), "png") ELSE files

generate_report(ticker) ==
  /\ pc = "idle"
  /\ IF data.is_none
     THEN /\ ret' = Returned("generate_report", ticker, "raise", "TypeError", FALSE)
          /\ data' = data
          /\ fs' = fs
     ELSE IF NoData(ticker)
     THEN /\ ret' = Returned("generate_report", ticker, "none", "", FALSE)
          /\ data' = data
          /\ fs' = fs
     ELSE LET report == Report(ticker, Metrics(data.entries[ticker]))
              saved == IF test_mode
                       THEN WriteFile(fs, ReportPath(ticker), report)
                       ELSE fs
          IN /\ data' = Dict(SetEntry(data.entries, ticker, WithDerived(data.entries[ticker])))
             /\ fs' = visualize_stock(saved, ticker)
             /\ ret' = Returned("generate_report", ticker, "report", report, TRUE)
  /\ UNCHANGED <<tickers, test_mode, test_dir, pc, idx, log>>

Next ==
  \/ enable_test_mode
  \/ \E list \in TickerLists : fetch_data(list)
  \/ fetch_step
  \/ fetch_return
  \/ \E t \in Tickers : calculate_metrics(t)
  \/ \E t \in Tickers : generate_report(t)

Spec == Init /\ [][Next]_vars

----------------------------------------------------------------------------
(* The moving averages and the trend of calculate_metrics (lines 95-109) on  *)
(* bar sequences long enough to fill the windows.                            *)

InitMA ==
  /\ \E n \in LongLengths, a \in 1..MaxBase, b \in (-MaxSlope)..MaxSlope :
       data = Dict(SetEntry(NoEntries, "T1", Frame(LongCloses(n, a, b))))
  /\ tickers = <<"T1">>
  /\ test_mode = FALSE
  /\ test_dir = FALSE
  /\ fs = NoFiles
  /\ pc = "idle"
  /\ idx = 0
  /\ log = <<>>
  /\ ret = Returned("fetch_data", tickers, "data", "self.data", FALSE)

moving_averages(ticker) ==
  /\ pc = "idle"
  /\ ticker \in DOMAIN data.entries
  /\ "MA50" \notin DOMAIN data.entries[ticker]
  /\ data' = Dict(SetEntry(data.entries, ticker, WithAverages(data.entries[ticker])))
  /\ ret' = Returned("calculate_metrics", ticker, "trend",
                     TrendMetrics(data.entries[ticker]), FALSE)
  /\ UNCHANGED <<tickers, test_mode, test_dir, fs, pc, idx, log>>

NextMA == \E t \in Tickers : moving_averages(t)

SpecMA == InitMA /\ [][NextMA]_vars

----------------------------------------------------------------------------
(* The recommendation of generate_report (lines 159-169) as a function of    *)
(* the trend and the Sharpe ratio.                                           *)

SharpeValues ==
  {NaN, Inf(1), Inf(-1)} \cup
  {Norm("sqrt", s * p * p, q * q) : p \in 0..MaxNum, q \in 1..MaxDen, s \in {-1, 1}}

InitRec ==
  /\ data = NoneData
  /\ tickers = <<>>
  /\ test_mode = FALSE
  /\ test_dir = FALSE
  /\ fs = NoFiles
  /\ pc = "idle"
  /\ idx = 0
  /\ log = <<>>
  /\ \E trend \in {"Bullish", "Bearish"}, sharpe \in SharpeValues :
       ret = Returned("calculate_metrics", "T1", "trend_sharpe",
                      [trend |-> trend, sharpe_ratio |-> sharpe], FALSE)

recommend ==
  /\ ret.kind = "trend_sharpe"
  /\ ret' = Returned("generate_report", ret.arg, "recommendation",
                     [trend |-> ret.value.trend,
                      sharpe_ratio |-> ret.value.sharpe_ratio,
                      recommendation |-> Recommendation(ret.value.trend,
                                                        ret.value.sharpe_ratio)],
                     FALSE)
  /\ UNCHANGED <<data, tickers, test_mode, test_dir, fs, pc, idx, log>>

NextRec == recommend

SpecRec == InitRec /\ [][NextRec]_vars

----------------------------------------------------------------------------
(* What the claims speak of *)

OK_LINE == "Successfully fetched data for"
ERROR_LINE == "Error fetching data for"
LOADED_LINE == "Loaded test data for"
GENERATED_LINE == "Generated test data for"

\* the lines of the last fetch_data call that end a ticker's attempt
IsOutcome(line) == line[1] \in {OK_LINE, ERROR_LINE}
Outcomes == SelectSeq(log, IsOutcome)

\* the tickers the last fetch_data call fetched, and those it failed on
Fetched == {log[i][2] : i \in {j \in DOMAIN log : log[j][1] = OK_LINE}}
Failed == {log[i][2] : i \in {j \in DOMAIN log : log[j][1] = ERROR_LINE}}

\* the ticker went through fetch_data in test mode
FetchedInTestMode(t) ==
  \E i \in DOMAIN log : log[i] \in {<<LOADED_LINE, t>>, <<GENERATED_LINE, t>>}

\* the ticker has an entry with at least one bar
HasBars(t) ==
  /\ ~data.is_none
  /\ t \in DOMAIN data.entries
  /\ Len(data.entries[t]["Close"]) > 0

Closes(t) == data.entries[t]["Close"]

ReportKeys ==
  {"ticker", "current_price", "ma50", "ma200", "trend", "annualized_return",
   "volatility", "sharpe_ratio", "recommendation"}

Strings == {BUY, WATCH, CAUTION, SELL}

----------------------------------------------------------------------------
\* C1: for a real Sharpe ratio the recommendation follows the decision table:
\* Bullish and sharpe > 1 gives BUY, Bullish and sharpe <= 1 gives WATCH,
\* Bearish and sharpe > 0.5 gives CAUTION, Bearish and sharpe <= 0.5 gives
\* SELL; it is one of the four strings, the boundaries 1 and 0.5 included.
\* (sharpe = sign(n) * sqrt(|n|/d), so sharpe > 1 iff n > d, and
\* sharpe > 0.5 iff 4n > d.)
C1_DecisionTable ==
  (ret.kind = "recommendation" /\ ret.value.sharpe_ratio.k = "sqrt") =>
    LET x == ret.value.sharpe_ratio
        bullish == ret.value.trend = "Bullish"
        above1 == x.n > x.d
        aboveHalf == 4 * x.n > x.d
        r == ret.value.recommendation
    IN /\ ret.value.trend \in {"Bullish", "Bearish"}
       /\ r \in Strings
       /\ (bullish /\ above1) => r = BUY
       /\ (bullish /\ ~above1) => r = WATCH
       /\ (~bullish /\ aboveHalf) => r = CAUTION
       /\ (~bullish /\ ~aboveHalf) => r = SELL

\* Bullish with a Sharpe ratio of exactly 1 has been classified as WATCH
C1_Witness ==
  /\ ret.kind = "recommendation"
  /\ ret.value.trend = "Bullish"
  /\ ret.value.sharpe_ratio = Norm("sqrt", 1, 1)
  /\ ret.value.recommendation = WATCH

----------------------------------------------------------------------------
\* what calculate_metrics and generate_report have returned
C2_State ==
  (ret.op \in {"calculate_metrics", "generate_report"} /\ ~data.is_none) =>
    IF HasBars(ret.arg)
    THEN IF ret.op = "calculate_metrics"
         THEN ret.kind = "metrics"
         ELSE /\ ret.kind = "report"
              /\ DOMAIN ret.value = ReportKeys
              /\ ret.value.ticker = ret.arg
              /\ ret.shown
    ELSE ret.kind = "none" /\ ~ret.shown

\* what a generate_report step on a ticker with no bars changes
C2_Step ==
  (ret'.op = "generate_report" /\ ~data.is_none /\ ~HasBars(ret'.arg)) =>
    fs' = fs /\ data' = data

\* C2: for a ticker with no entry or an empty frame calculate_metrics returns
\* None, generate_report returns None, shows no plot and writes no file; for
\* a ticker with bars each returns its record, whatever else is in the batch.
C2_NoDataIsSkipped == [](C2_State) /\ [][C2_Step]_vars

\* generate_report has returned the report of the second ticker of a batch
\* whose first ticker has no bars
C2_Witness ==
  /\ Len(tickers) = 2
  /\ ~HasBars(tickers[1])
  /\ ret.op = "generate_report"
  /\ ret.arg = tickers[2]
  /\ ret.kind = "report"

----------------------------------------------------------------------------
----------------------------------------------------------------------------
\* C4: in test mode, once generate_report(t) has returned for a ticker t that
\* went through fetch_data, t_test_data.csv, t_plot.png and t_report.json
\* exist, whether the fixture was loaded or generated.
C4_TestFilesExist ==
  \A t \in Tickers :
    (test_mode /\ ret.op = "generate_report" /\ ret.arg = t /\ FetchedInTestMode(t)) =>
      /\ ret.kind = "report"
      /\ {CsvPath(t), PlotPath(t), ReportPath(t)} \subseteq DOMAIN fs

\* one ticker's fixture was loaded, the other's generated, and the report of
\* the loaded one is done
C4_Witness ==
  \E t \in Tickers, u \in Tickers :
    /\ <<LOADED_LINE, t>> \in Range(log)
    /\ <<GENERATED_LINE, u>> \in Range(log)
    /\ ret.op = "generate_report"
    /\ ret.arg = t
    /\ {CsvPath(t), PlotPath(t), ReportPath(t)} \subseteq DOMAIN fs

----------------------------------------------------------------------------
\* C5: when ma50 or ma200 of the last bar is undefined, calculate_metrics
\* reports neither Bullish nor Bearish.
C5_UndefinedAverageUndeterminedTrend ==
  (ret.kind = "metrics" /\ (ret.value.ma50.k = "nan" \/ ret.value.ma200.k = "nan")) =>
    ret.value.trend \notin {"Bullish", "Bearish"}

----------------------------------------------------------------------------
\* C6: for at least two bars of one and the same close, the daily returns are
\* all 0, the volatility is 0 and the Sharpe ratio is neither NaN nor
\* infinite.
C6_ConstantSeriesUndefinedSharpe ==
  (/\ ret.op = "calculate_metrics"
   /\ ret.kind = "metrics"
   /\ Len(Closes(ret.arg)) >= 2
   /\ \A i \in DOMAIN Closes(ret.arg) : Closes(ret.arg)[i] = Closes(ret.arg)[1]) =>
    /\ \A i \in 2..Len(Closes(ret.arg)) :
         data.entries[ret.arg]["Daily_Return"][i] = Rat(0, 1)
    /\ ret.value.volatility = Norm("sqrt", 0, 1)
    /\ ret.value.sharpe_ratio.k \notin {"nan", "inf"}

----------------------------------------------------------------------------
\* ma is undefined under w rows, and from w rows on the mean of the last w
\* closes (of closes on a line: the mean of the first and the last of them)
MeanOfLast(col, w, ma) ==
  IF Len(col) < w THEN ma = NaN
  ELSE ma.k = "num" /\ 2 * ma.n = ma.d * (col[Len(col) - w + 1] + col[Len(col)])

\* C7: for N bars on a line, ma50 is undefined when N < 50 and the mean of
\* the last 50 closes when N >= 50 (of closes on a line, the mean of the
\* first and the last of them); likewise ma200 with 200; the record is
\* returned either way.
C7_AveragesOverFullWindows ==
  (ret.kind = "trend") =>
    /\ DOMAIN ret.value = {"current_price", "ma50", "ma200", "trend"}
    /\ MeanOfLast(Closes(ret.arg), 50, ret.value.ma50)
    /\ MeanOfLast(Closes(ret.arg), 200, ret.value.ma200)
    /\ ret.value.ma50 = Last(data.entries[ret.arg]["MA50"])
    /\ ret.value.ma200 = Last(data.entries[ret.arg]["MA200"])

\* 49 rising bars: both averages are undefined and the record is there
C7_Witness ==
  /\ ret.kind = "trend"
  /\ Len(Closes(ret.arg)) = 49
  /\ Closes(ret.arg)[2] > Closes(ret.arg)[1]
  /\ ret.value.ma50 = NaN
  /\ ret.value.ma200 = NaN

----------------------------------------------------------------------------
\* closes rising by the same positive amount every day
RisingLine(col) ==
  /\ Len(col) >= 2
  /\ col[2] > col[1]
  /\ \A i \in 2..Len(col) : col[i] - col[i - 1] = col[2] - col[1]

\* C8: for at least 200 bars rising by the same positive amount every day,
\* the mean of the last 50 closes is greater than the mean of the last 200
\* and the trend is Bullish.
C8_RisingLineIsBullish ==
  (ret.kind = "trend" /\ Len(Closes(ret.arg)) >= 200 /\ RisingLine(Closes(ret.arg))) =>
    /\ ret.value.trend = "Bullish"
    /\ ret.value.ma50.k = "num"
    /\ ret.value.ma200.k = "num"
    /\ ret.value.ma50.n * ret.value.ma200.d > ret.value.ma200.n * ret.value.ma50.d

\* exactly 200 rising bars, found Bullish
C8_Witness ==
  /\ ret.kind = "trend"
  /\ Len(Closes(ret.arg)) = 200
  /\ RisingLine(Closes(ret.arg))
  /\ ret.value.trend = "Bullish"

----------------------------------------------------------------------------
\* what a step of calculate_metrics or generate_report leaves alone
C9_Step ==
  (ret'.op \in {"calculate_metrics", "generate_report"}) =>
    /\ tickers' = tickers
    /\ test_mode' = test_mode
    /\ data'.is_none = data.is_none
    /\ DOMAIN data'.entries = DOMAIN data.entries
    /\ \A u \in DOMAIN data.entries :
         IF u = ret'.arg
         THEN /\ DOMAIN data'.entries[u] \subseteq BaseCols \cup DerivedCols
              /\ \A c \in BaseCols : data'.entries[u][c] = data.entries[u][c]
         ELSE data'.entries[u] = data.entries[u]

\* the metrics returned are those of the ticker's own closes
C9_State ==
  (ret.kind = "metrics") =>
    HasBars(ret.arg) /\ ret.value = Metrics(Frame(Closes(ret.arg)))

\* C9: a step of calculate_metrics(t) or generate_report(t) leaves the ticker
\* list, the test-mode flag, the entries of the other tickers and the
\* Open/High/Low/Close/Volume columns of t as they were, adding to t's frame
\* at most Daily_Return, MA50 and MA200; and the metrics returned are those of
\* t's own bars.
C9_OnlyOwnEntryChanges == [][C9_Step]_vars /\ [](C9_State)

\* the metrics of the second ticker, returned after the first ticker's frame
\* got its derived columns
C9_Witness ==
  /\ Len(tickers) = 2
  /\ HasBars(tickers[1])
  /\ DerivedCols \subseteq DOMAIN data.entries[tickers[1]]
  /\ ret.op = "calculate_metrics"
  /\ ret.arg = tickers[2]
  /\ ret.kind = "metrics"

----------------------------------------------------------------------------
\* C10: the data map holds entries only for tickers of the last fetch_data
\* call; when that call returns, self.tickers is its list and the entries are
\* those of the tickers it fetched; calculate_metrics on a ticker that is not
\* in the last list returns None.
C10_FetchReplacesMap ==
  /\ ~data.is_none => DOMAIN data.entries \subseteq Range(tickers)
  /\ (ret.op = "fetch_data" /\ ret.kind = "data") =>
       /\ tickers = ret.arg
       /\ DOMAIN data.entries = Fetched
  /\ (/\ ret.op = "calculate_metrics"
      /\ ~data.is_none
      /\ ret.arg \notin Range(tickers)) => ret.kind = "none"

\* calculate_metrics has returned None for a ticker that an earlier call
\* fetched (its fixture is on disk) and the last call did not
C10_Witness ==
  /\ ret.op = "calculate_metrics"
  /\ ret.kind = "none"
  /\ ret.arg \notin Range(tickers)
  /\ CsvPath(ret.arg) \in DOMAIN fs
  /\ tickers # <<>>

====
